---- MODULE Spec2Model ----
(***************************************************************************)
(* ClipboardGPT: the request/response orchestration of the desktop chat    *)
(* clients.                                                                *)
(*                                                                         *)
(*   - the background requesters: core.ApiWorker.run, the ApiWorker of     *)
(*     beepconf_qt_chat.py and main.send_to_backend.blocking_call;         *)
(*   - the Qt chat session of beepconf_qt_chat.py (first MainWindow):      *)
(*     on_send_clicked, the worker thread, _on_api_finished, the history   *)
(*     file and the token total;                                           *)
(*   - the Flet frontend of main.py: do_send, the backend task and         *)
(*     on_task_done with the client_storage history.                       *)
(*                                                                         *)
(* A text is a sequence of characters; a few fixed pieces of text (the     *)
(* system prompt, "ERROR:", a traceback) are one element each.  Python's   *)
(* None is the empty tuple <<>> and a present value v is <<v>>.            *)
(***************************************************************************)
EXTENDS Integers, Sequences, FiniteSets, TLC

VARIABLES
    \* ---- one request of a requester, run on its own
    reqRun,
    \* ---- the Qt chat session (beepconf_qt_chat.py, first MainWindow)
    inputEdit,            \* self.inputEdit: the typed text
    clipboard,            \* what pyperclip.paste() returns
    current_attachments,  \* self.current_attachments
    sendBtnEnabled,       \* self.sendBtn.isEnabled()
    status,               \* the status bar's message
    log,                  \* self.log_view: the lines appended
    workers,              \* the ApiWorker threads created, in order
    pending,              \* finished signals queued to the UI thread
    histFile,             \* HISTORY_FILE on disk
    history,              \* self.history
    chatList,             \* self.chatList: the titles shown
    responses_list,       \* self.responses_list: the candidates shown
    response_preview,     \* self.response_preview
    costLabel,            \* the token count self.costLabel shows
    total_tokens,         \* self.total_tokens
    nClicks,              \* how many times on_send_clicked has run
    \* ---- the Flet frontend (main.py)
    input_tf,             \* input_tf.value
    send_btn_disabled,    \* send_btn.disabled
    typing_visible,       \* typing_text.visible
    attached_preset,      \* attached_preset["text"]
    fstate,               \* state: last_req_text, last_resp_text
    output_lv,            \* the message rows shown
    tasks,                \* the process_send tasks page.run_task started
    storage,              \* page.client_storage[HIST_KEY], decoded
    nSends,               \* how many times do_send has run
    \* ---- one call of a helper (load_json, _append_history, estimate_tokens)
    fnCall,               \* the last call: its arguments and what it returned
    nAppends,             \* how many times _append_history was called on its own
    \* ---- the candidate picker (beepconf_qt_chat.py, second MainWindow)
    pickThreads,          \* the run_pick threads started, in order
    pickQueue,            \* invokeMethod calls queued to the UI thread
    nPicks,               \* how many times auto_pick_by_model has run
    nShows                \* how many times the candidate list was filled

reqVars == <<reqRun>>

qtVars == <<inputEdit, clipboard, current_attachments, sendBtnEnabled, status,
            log, workers, pending, histFile, history, chatList, responses_list,
            response_preview, costLabel, total_tokens, nClicks>>

fletVars == <<input_tf, send_btn_disabled, typing_visible, attached_preset,
              fstate, output_lv, tasks, storage, nSends>>

helperVars == <<fnCall, nAppends>>

pickVars == <<pickThreads, pickQueue, nPicks, nShows>>

vars == <<reqVars, qtVars, fletVars, helperVars, pickVars>>

----------------------------------------------------------------------------
(* Bounds of the model *)

\* how many times a send handler runs in one behaviour
MaxSends == 2
\* how many files are attached in one behaviour
MaxAttach == 1
\* how many times _append_history is called on its own in one behaviour
MaxAppends == 2
\* the longest text handed to estimate_tokens
MaxTextLen == 5
\* how many times auto_pick_by_model runs in one behaviour
MaxPicks == 2
\* how many times the candidate list is filled in one behaviour
MaxShows == 1
\* the longest candidate list shown
MaxCandidates == 3
\* the longest text in the API key field
MaxKeyLen == 3

(* Program constants *)

MAX_TOKENS == 1024
DEFAULT_TIMEOUT == 60
TEMP_TENTHS == 2
N_CANDIDATES == 1
ATTACH_MAX_CHARS == 2000
TITLE_MAX_CHARS == 60
HIST_CAP == 200

----------------------------------------------------------------------------
(* Texts *)

WS == {" ", "\n"}

\* the texts the user types: empty, blank, a word, a word after a blank, two words
Texts == {<<>>, <<" ">>, <<"a">>, <<" ", "a">>, <<"a", " ", "a">>}

\* the texts found on the clipboard
ClipTexts == {<<>>, <<"a">>}

None == <<>>

Some(v) == <<v>>

\* Python truthiness of a text, a list or an optional value
Truthy(v) == v # <<>>

Take(s, k) == SubSeq(s, 1, IF Len(s) < k THEN Len(s) ELSE k)

RECURSIVE LStrip(_)
LStrip(s) ==
    IF s = <<>> THEN s
    ELSE IF Head(s) \in WS THEN LStrip(Tail(s)) ELSE s

RECURSIVE RStrip(_)
RStrip(s) ==
    IF s = <<>> THEN s
    ELSE IF s[Len(s)] \in WS THEN RStrip(SubSeq(s, 1, Len(s) - 1)) ELSE s

\* str.strip()
Strip(s) == RStrip(LStrip(s))

\* len(text.split()): the number of maximal runs of non-blank characters
WordCount(s) ==
    Cardinality({i \in 1..Len(s) :
                    /\ s[i] \notin WS
                    /\ (i = 1 \/ s[i - 1] \in WS)})

\* int(max(1, words / 0.75))
WordsToTokens(words) == IF words = 0 THEN 1 ELSE (4 * words) \div 3

\* core.estimate_tokens with no tiktoken module
estimate_tokens(text) ==
    IF ~Truthy(text) THEN 0 ELSE WordsToTokens(WordCount(text))

DEFAULT_SYSTEM_PROMPT == <<"DEFAULT_SYSTEM_PROMPT">>

----------------------------------------------------------------------------
(* Raw results of the endpoint *)

\* A raw result is an object (the v1 client's ChatCompletion) or a mapping;
\* choices is None when the attribute or key is absent.  A choice is an
\* object or a mapping with an optional message (whose content may be None)
\* and an optional text.
Choice(shape, message, text) ==
    [shape |-> shape, message |-> message, text |-> text]

Msg(content) == Some([content |-> content])

Raw(shape, choices) == [shape |-> shape, choices |-> choices]

RawResults ==
    { Raw("obj",  Some(<<Choice("obj", Msg(Some(<<"a">>)), None)>>)),
      Raw("dict", Some(<<Choice("dict", Msg(Some(<<" ", "a">>)), None)>>)),
      Raw("dict", Some(<<Choice("dict", None, Some(<<"a">>))>>)),
      Raw("obj",  Some(<<Choice("obj", Msg(None), None)>>)),
      Raw("obj",  Some(<<>>)),
      Raw("obj",  None),
      Raw("dict", None) }

\* What one call of client.chat.completions.create does: it returns a raw
\* result, or raises.
ErrorKinds == {"TypeError_request_timeout", "TypeError_other", "APIError"}

NoRaw == Raw("none", None)

Returned(r) == [kind |-> "ok", resp |-> r]

Raised(k) == [kind |-> k, resp |-> NoRaw]

Outcomes == {Returned(r) : r \in RawResults} \cup {Raised(k) : k \in ErrorKinds}

\* isinstance(e, TypeError)
IsTypeError(kind) == kind \in {"TypeError_request_timeout", "TypeError_other"}

\* "request_timeout" in str(e)
MentionsRequestTimeout(kind) == kind = "TypeError_request_timeout"

----------------------------------------------------------------------------
(* The requesters *)

Message(role, content) == [role |-> role, content |-> content]

\* the keyword arguments of one client.chat.completions.create call
CallArgs(model, messages, temperature, n, request_timeout) ==
    [model |-> model, messages |-> messages, temperature |-> temperature,
     n |-> n, max_tokens |-> MAX_TOKENS, request_timeout |-> request_timeout]

\* ApiWorker.__init__
NewWorker(messages, model, temperature, n) ==
    [messages |-> messages, model |-> model, temperature |-> temperature,
     n |-> n, timeout |-> DEFAULT_TIMEOUT]

\* self.finished.emit(resp, None) and self.finished.emit(None, (e, tb))
EmitOk(resp) == [resp |-> Some(resp), err |-> None]

EmitErr(kind) == [resp |-> None, err |-> Some([e |-> kind, tb |-> "traceback"])]

RunResult(calls, emits) == [calls |-> calls, emits |-> emits]

\* core.ApiWorker.run without the outer "except Exception": a call that raises
\* ends the thread and nothing is emitted
CoreApiWorkerRun_NoOuterExcept(w, clientOk, first, second) ==
    LET call1 == CallArgs(w.model, w.messages, w.temperature, w.n, Some(w.timeout))
        call2 == CallArgs(w.model, w.messages, w.temperature, w.n, None)
    IN  IF ~clientOk THEN RunResult(<<>>, <<>>)
        ELSE IF first.kind = "ok"
            THEN RunResult(<<call1>>, <<EmitOk(first.resp)>>)
        ELSE IF IsTypeError(first.kind) /\ MentionsRequestTimeout(first.kind)
            THEN IF second.kind = "ok"
                 THEN RunResult(<<call1, call2>>, <<EmitOk(second.resp)>>)
                 ELSE RunResult(<<call1, call2>>, <<>>)
        ELSE RunResult(<<call1>>, <<>>)

\* core.ApiWorker.run retrying on every TypeError, whatever its message
CoreApiWorkerRun_RetryAnyTypeError(w, clientOk, first, second) ==
    LET call1 == CallArgs(w.model, w.messages, w.temperature, w.n, Some(w.timeout))
        call2 == CallArgs(w.model, w.messages, w.temperature, w.n, None)
    IN  IF ~clientOk THEN RunResult(<<>>, <<EmitErr("ClientError")>>)
        ELSE IF first.kind = "ok"
            THEN RunResult(<<call1>>, <<EmitOk(first.resp)>>)
        ELSE IF IsTypeError(first.kind)
            THEN IF second.kind = "ok"
                 THEN RunResult(<<call1, call2>>, <<EmitOk(second.resp)>>)
                 ELSE RunResult(<<call1, call2>>, <<EmitErr(second.kind)>>)
        ELSE RunResult(<<call1>>, <<EmitErr(first.kind)>>)

\* core.ApiWorker.run: clientOk says whether OpenAI(...) was constructed,
\* first and second are what the first and the second create call do.
CoreApiWorkerRun(w, clientOk, first, second) ==
    LET call1 == CallArgs(w.model, w.messages, w.temperature, w.n, Some(w.timeout))
        call2 == CallArgs(w.model, w.messages, w.temperature, w.n, None)
    IN  IF ~clientOk THEN RunResult(<<>>, <<EmitErr("ClientError")>>)
        ELSE IF first.kind = "ok"
            THEN RunResult(<<call1>>, <<EmitOk(first.resp)>>)
        ELSE IF IsTypeError(first.kind) /\ MentionsRequestTimeout(first.kind)
            THEN IF second.kind = "ok"
                 THEN RunResult(<<call1, call2>>, <<EmitOk(second.resp)>>)
                 ELSE RunResult(<<call1, call2>>, <<EmitErr(second.kind)>>)
        ELSE RunResult(<<call1>>, <<EmitErr(first.kind)>>)

\* ApiWorker.run of beepconf_qt_chat.py: one create call, no fallback
QtApiWorkerRun(w, clientOk, first) ==
    LET call1 == CallArgs(w.model, w.messages, w.temperature, w.n, Some(w.timeout))
    IN  IF ~clientOk THEN RunResult(<<>>, <<EmitErr("ClientError")>>)
        ELSE IF first.kind = "ok"
            THEN RunResult(<<call1>>, <<EmitOk(first.resp)>>)
        ELSE RunResult(<<call1>>, <<EmitErr(first.kind)>>)

\* the text of one choice in send_to_backend: content or text, "" for None
BackendChoiceText(c) ==
    LET txt == IF c.shape = "dict"
               THEN IF c.message # None /\ c.message[1].content # None
                       /\ Truthy(c.message[1].content[1])
                    THEN c.message[1].content[1]
                    ELSE IF c.text # None /\ Truthy(c.text[1]) THEN c.text[1]
                    ELSE <<>>
               ELSE IF c.message # None
                    THEN IF c.message[1].content # None
                         THEN c.message[1].content[1] ELSE <<>>
                    ELSE IF c.text # None THEN c.text[1] ELSE <<>>
    IN  Strip(txt)

RECURSIVE JoinParts(_)
\* "\n\n".join(parts)
JoinParts(parts) ==
    IF parts = <<>> THEN <<>>
    ELSE IF Len(parts) = 1 THEN parts[1]
    ELSE parts[1] \o <<"\n", "\n">> \o JoinParts(Tail(parts))

RECURSIVE NonEmptyTexts(_)
NonEmptyTexts(ts) ==
    IF ts = <<>> THEN <<>>
    ELSE IF Truthy(Head(ts)) THEN <<Head(ts)>> \o NonEmptyTexts(Tail(ts))
    ELSE NonEmptyTexts(Tail(ts))

\* f"ERROR: {e}\n{tb}"
BackendError(kind) == <<"ERROR:", kind, "\n", "traceback">>

\* the parsing of send_to_backend.blocking_call
BackendParse(resp) ==
    LET fromAttr == IF resp.shape = "obj" THEN resp.choices ELSE None
        useAttr  == fromAttr # None /\ Truthy(fromAttr[1])
    IN  IF useAttr
        THEN JoinParts(NonEmptyTexts(
                 [i \in 1..Len(fromAttr[1]) |-> BackendChoiceText(fromAttr[1][i])]))
        ELSE IF resp.shape = "dict"
             THEN IF resp.choices = None
                  THEN BackendError("TypeError_other")   \* for c in None
                  ELSE JoinParts(NonEmptyTexts(
                           [i \in 1..Len(resp.choices[1]) |->
                               BackendChoiceText(resp.choices[1][i])]))
             ELSE <<>>

BackendResult(calls, result) == [calls |-> calls, result |-> result]

\* send_to_backend.blocking_call: envOk says whether the environment was
\* read and the client constructed without an exception.
BlockingCall(prompt, preset, model, timeout, envOk, first, second) ==
    LET messages ==
            (IF Truthy(preset) THEN <<Message("system", preset[1])>> ELSE <<>>)
            \o <<Message("system", <<"You are a helpful assistant.">>),
                 Message("user", prompt)>>
        call1 == CallArgs(model, messages, TEMP_TENTHS, N_CANDIDATES, Some(timeout))
        call2 == CallArgs(model, messages, TEMP_TENTHS, N_CANDIDATES, None)
    IN  IF ~envOk THEN BackendResult(<<>>, BackendError("ClientError"))
        ELSE IF first.kind = "ok"
            THEN BackendResult(<<call1>>, BackendParse(first.resp))
        ELSE IF IsTypeError(first.kind) /\ MentionsRequestTimeout(first.kind)
            THEN IF second.kind = "ok"
                 THEN BackendResult(<<call1, call2>>, BackendParse(second.resp))
                 ELSE BackendResult(<<call1, call2>>, BackendError(second.kind))
        ELSE BackendResult(<<call1>>, BackendError(first.kind))

----------------------------------------------------------------------------
(* One request of a requester, run on its own *)

BACKEND_TIMEOUT == 60

NoRun ==
    [variant |-> "none", clientOk |-> TRUE, first |-> Raised("APIError"),
     second |-> Raised("APIError"), calls |-> <<>>, emits |-> <<>>, result |-> <<>>]

UserMessages(prompt) ==
    <<Message("system", DEFAULT_SYSTEM_PROMPT), Message("user", prompt)>>

\* a core.ApiWorker is run to its end
RunCoreWorker ==
    /\ reqRun = NoRun
    /\ \E prompt \in Texts, clientOk \in BOOLEAN, first \in Outcomes, second \in Outcomes :
          LET w == NewWorker(UserMessages(prompt), "gpt-4o-mini", TEMP_TENTHS, N_CANDIDATES)
              r == CoreApiWorkerRun(w, clientOk, first, second)
          IN  reqRun' = [variant |-> "core", clientOk |-> clientOk, first |-> first,
                         second |-> second, calls |-> r.calls, emits |-> r.emits,
                         result |-> <<>>]
    /\ UNCHANGED <<qtVars, fletVars, helperVars, pickVars>>

\* an ApiWorker of beepconf_qt_chat.py is run to its end
RunQtWorker ==
    /\ reqRun = NoRun
    /\ \E prompt \in Texts, clientOk \in BOOLEAN, first \in Outcomes :
          LET w == NewWorker(UserMessages(prompt), "gpt-4o-mini", TEMP_TENTHS, N_CANDIDATES)
              r == QtApiWorkerRun(w, clientOk, first)
          IN  reqRun' = [variant |-> "qt", clientOk |-> clientOk, first |-> first,
                         second |-> first, calls |-> r.calls, emits |-> r.emits,
                         result |-> <<>>]
    /\ UNCHANGED <<qtVars, fletVars, helperVars, pickVars>>

\* send_to_backend.blocking_call is run to its end
RunBackend ==
    /\ reqRun = NoRun
    /\ \E prompt \in Texts \ {<<>>}, preset \in {None, Some(<<"a">>)},
          envOk \in BOOLEAN, first \in Outcomes, second \in Outcomes :
          LET r == BlockingCall(prompt, preset, "gpt-3.5-turbo", BACKEND_TIMEOUT,
                                envOk, first, second)
          IN  reqRun' = [variant |-> "flet", clientOk |-> envOk, first |-> first,
                         second |-> second, calls |-> r.calls, emits |-> <<>>,
                         result |-> r.result]
    /\ UNCHANGED <<qtVars, fletVars, helperVars, pickVars>>

----------------------------------------------------------------------------
(* The Qt chat session: MainWindow of beepconf_qt_chat.py *)

HistFile(kind, doc) == [kind |-> kind, doc |-> doc]

\* load_json returning an empty list, whatever default the caller gave
load_json_EmptyDefault(file, default) == IF file.kind = "ok" THEN file.doc ELSE <<>>

\* load_json(HISTORY_FILE, default): the parsed document of a file that is
\* there, can be read and holds JSON (kind "ok"); the default for a file that
\* is "missing", "unreadable" or "corrupt"
load_json(file, default) == IF file.kind = "ok" THEN file.doc ELSE default

\* save_json(HISTORY_FILE, data): the file after the write
save_json(data) == HistFile("ok", data)

HistoryEntry(prompt, responses) == [prompt |-> prompt, responses |-> responses]

RECURSIVE FirstLine(_)
\* text.splitlines()[0], for a text that is not empty
FirstLine(s) ==
    IF s = <<>> \/ Head(s) = "\n" THEN <<>> ELSE <<Head(s)>> \o FirstLine(Tail(s))

RECURSIVE Titles(_, _)
\* the loop of _load_history over hist[::-1]: the titles added to chatList
\* before the loop ends or "".splitlines()[0] raises IndexError
Titles(hist, k) ==
    IF k = 0 THEN [raised |-> FALSE, titles |-> <<>>]
    ELSE IF ~Truthy(hist[k].prompt) THEN [raised |-> TRUE, titles |-> <<>>]
    ELSE LET rest == Titles(hist, k - 1)
         IN  [raised |-> rest.raised,
              titles |-> <<Take(FirstLine(hist[k].prompt), TITLE_MAX_CHARS)>> \o rest.titles]

\* _load_history: self.history, the chatList it leaves, and whether it raised
LoadHistory(file) ==
    LET hist == load_json(file, <<>>)
        t    == Titles(hist, Len(hist))
    IN  [history |-> hist, chatList |-> t.titles, raised |-> t.raised]

\* _append_history with the new entry put first
append_history_MostRecentFirst(file, prompt, responses) ==
    LET file2 == save_json(<<HistoryEntry(prompt, responses)>>
                           \o load_json(file, <<>>))
    IN  [file |-> file2, loaded |-> LoadHistory(file2)]

\* _append_history: the file it leaves and what its _load_history does
append_history(file, prompt, responses) ==
    LET file2 == save_json(Append(load_json(file, <<>>),
                                  HistoryEntry(prompt, responses)))
    IN  [file |-> file2, loaded |-> LoadHistory(file2)]

\* the text of one choice in _on_api_finished; None stands for a None on
\* which .strip() raises
QtChoiceText(c) ==
    IF c.shape = "dict"
    THEN IF c.message # None /\ c.message[1].content # None
            /\ Truthy(c.message[1].content[1])
         THEN c.message[1].content
         ELSE IF c.text # None /\ Truthy(c.text[1]) THEN c.text
         ELSE Some(<<>>)
    ELSE IF c.message # None
         THEN c.message[1].content
         ELSE IF c.text # None THEN c.text ELSE Some(<<>>)

Parsed(raised, candidates) == [raised |-> raised, candidates |-> candidates]

\* the parsing of _on_api_finished (lines 349-361)
QtNormalize(resp) ==
    LET fromAttr == IF resp.shape = "obj" THEN resp.choices ELSE None
        useAttr  == fromAttr # None /\ Truthy(fromAttr[1])
        choices  == IF useAttr THEN fromAttr[1]
                    ELSE IF resp.choices = None THEN <<>> ELSE resp.choices[1]
        texts    == [i \in 1..Len(choices) |-> QtChoiceText(choices[i])]
    IN  IF ~useAttr /\ resp.shape # "dict"
        THEN Parsed(TRUE, <<>>)                    \* resp.get: AttributeError
        ELSE IF \E i \in 1..Len(choices) : texts[i] = None
        THEN Parsed(TRUE, <<>>)                    \* None.strip(): AttributeError
        ELSE Parsed(FALSE, [i \in 1..Len(choices) |-> Strip(texts[i][1])])

RECURSIVE WithAttachments(_, _)
\* the loop of on_send_clicked over self.current_attachments
WithAttachments(prompt, atts) ==
    IF atts = <<>> THEN prompt
    ELSE WithAttachments(
             prompt \o <<"\n", "\n", "[Attachment: ", Head(atts).path, "]", "\n">>
                    \o Take(Head(atts).text, ATTACH_MAX_CHARS),
             Tail(atts))

\* on_send_clicked testing the typed text before it is stripped
ResolvePrompt_NoStrip(typed, clip) ==
    IF Truthy(typed) THEN Strip(typed) ELSE clip

\* on_send_clicked, lines 313-315: the typed text, else the clipboard
ResolvePrompt(typed, clip) ==
    IF Truthy(Strip(typed)) THEN Strip(typed) ELSE clip

\* the thread of an ApiWorker: the worker, whether run() has ended and
\* whether _on_api_finished has run for it
Thread(w) == [worker |-> w, ran |-> FALSE, handled |-> FALSE, calls |-> <<>>]

\* a thread whose finished signal _on_api_finished has handled: nothing reads
\* its request again
HandledThread ==
    [worker |-> NewWorker(<<>>, "", TEMP_TENTHS, N_CANDIDATES), ran |-> TRUE,
     handled |-> TRUE, calls |-> <<>>]


InFlight == {i \in DOMAIN workers : ~workers[i].handled}

\* the user edits the input field
TypeText ==
    /\ \E t \in Texts : inputEdit' = t
    /\ UNCHANGED <<clipboard, current_attachments, sendBtnEnabled, status, log,
                   workers, pending, histFile, history, chatList, responses_list,
                   response_preview, costLabel, total_tokens, nClicks>>
    /\ UNCHANGED <<reqVars, fletVars, helperVars, pickVars>>

\* some program puts a text on the clipboard
SetClipboard ==
    /\ \E t \in ClipTexts : clipboard' = t
    /\ UNCHANGED <<inputEdit, current_attachments, sendBtnEnabled, status, log,
                   workers, pending, histFile, history, chatList, responses_list,
                   response_preview, costLabel, total_tokens, nClicks>>
    /\ UNCHANGED <<reqVars, fletVars, helperVars, pickVars>>

AttachLines == {"Attached", "Attach failed"}

\* _on_attach: the dialog is accepted with one file, which is read or not
OnAttach ==
    /\ Cardinality({i \in DOMAIN log : log[i] \in AttachLines}) < MaxAttach
    /\ \E readable \in BOOLEAN :
          IF readable
          THEN /\ current_attachments' =
                      Append(current_attachments, [path |-> "f", text |-> <<"a">>])
               /\ log' = Append(log, "Attached")
          ELSE /\ log' = Append(log, "Attach failed")
               /\ UNCHANGED current_attachments
    /\ UNCHANGED <<inputEdit, clipboard, sendBtnEnabled, status, workers, pending,
                   histFile, history, chatList, responses_list, response_preview,
                   costLabel, total_tokens, nClicks>>
    /\ UNCHANGED <<reqVars, fletVars, helperVars, pickVars>>

\* on_send_clicked without self.sendBtn.setEnabled(False)
StartWorker_NoDisable(prompt) ==
    LET full == WithAttachments(prompt, current_attachments)
        w    == NewWorker(UserMessages(full), "gpt-4o-mini", TEMP_TENTHS, N_CANDIDATES)
    IN  /\ UNCHANGED sendBtnEnabled
        /\ status' = "Sending..."
        /\ workers' = Append(workers, Thread(w))
        /\ UNCHANGED log

\* on_send_clicked, lines 320-337: the request is built and the worker started
StartWorker(prompt) ==
    LET full == WithAttachments(prompt, current_attachments)
        w    == NewWorker(UserMessages(full), "gpt-4o-mini", TEMP_TENTHS, N_CANDIDATES)
    IN  /\ sendBtnEnabled' = FALSE
        /\ status' = "Sending..."
        /\ workers' = Append(workers, Thread(w))
        /\ UNCHANGED log

\* on_send_clicked, lines 316-318: nothing to send
RejectSend ==
    /\ log' = Append(log, "No input to send")
    /\ UNCHANGED <<sendBtnEnabled, status, workers>>

on_send_clicked ==
    LET prompt == ResolvePrompt(inputEdit, clipboard)
    IN  /\ IF ~Truthy(prompt) THEN RejectSend ELSE StartWorker(prompt)
        /\ nClicks' = nClicks + 1
        /\ UNCHANGED <<inputEdit, clipboard, current_attachments, pending, histFile,
                       history, chatList, responses_list, response_preview,
                       costLabel, total_tokens>>

\* the user clicks Send: a disabled QPushButton emits no clicked signal
ClickSend ==
    /\ nClicks < MaxSends
    /\ IF sendBtnEnabled THEN on_send_clicked ELSE UNCHANGED qtVars
    /\ UNCHANGED <<reqVars, fletVars, helperVars, pickVars>>

\* the thread of worker i runs ApiWorker.run to its end; each emit is queued
\* to the UI thread
WorkerRun ==
    /\ \E i \in DOMAIN workers, clientOk \in BOOLEAN, first \in Outcomes :
          /\ ~workers[i].ran
          /\ LET r == QtApiWorkerRun(workers[i].worker, clientOk, first)
             IN  /\ workers' = [workers EXCEPT ![i].ran = TRUE, ![i].calls = r.calls]
                 /\ pending' = pending \o
                        [k \in 1..Len(r.emits) |->
                            [w |-> i, resp |-> r.emits[k].resp, err |-> r.emits[k].err]]
    /\ UNCHANGED <<inputEdit, clipboard, current_attachments, sendBtnEnabled, status,
                   log, histFile, history, chatList, responses_list, response_preview,
                   costLabel, total_tokens, nClicks>>
    /\ UNCHANGED <<reqVars, fletVars, helperVars, pickVars>>

\* _on_api_finished counting the tokens of the input before it looks at err
ApiFinishedFailure_CountsTokens ==
    /\ sendBtnEnabled' = TRUE
    /\ log' = Append(log, "API error")
    /\ status' = "Error"
    /\ costLabel' = WordsToTokens(WordCount(inputEdit))
    /\ total_tokens' = total_tokens + WordsToTokens(WordCount(inputEdit))
    /\ UNCHANGED <<histFile, history, chatList, responses_list, response_preview>>

\* _on_api_finished enabling the send button only after the err test
ApiFinishedFailure_NoEnable ==
    /\ log' = Append(log, "API error")
    /\ status' = "Error"
    /\ UNCHANGED <<sendBtnEnabled, histFile, history, chatList, responses_list,
                   response_preview, costLabel, total_tokens>>

\* _on_api_finished, lines 340-345: the requester reported a failure
ApiFinishedFailure ==
    /\ sendBtnEnabled' = TRUE
    /\ log' = Append(log, "API error")
    /\ status' = "Error"
    /\ UNCHANGED <<histFile, history, chatList, responses_list, response_preview,
                   costLabel, total_tokens>>

\* _on_api_finished, lines 340 and 347-387: the requester reported a result
ApiFinishedResult(resp) ==
    LET p      == QtNormalize(resp)
        ah     == append_history(histFile, inputEdit, p.candidates)
        file2  == ah.file
        lh     == ah.loaded
        tokens == WordsToTokens(WordCount(inputEdit))
    IN  /\ sendBtnEnabled' = TRUE
        /\ IF p.raised
           THEN /\ log' = Append(log, "Failed to parse response")
                /\ UNCHANGED <<status, histFile, history, chatList, responses_list,
                               response_preview, costLabel, total_tokens>>
           ELSE /\ responses_list' = p.candidates
                /\ response_preview' =
                       IF Truthy(p.candidates) THEN p.candidates[1] ELSE response_preview
                /\ histFile' = file2
                /\ history' = lh.history
                /\ chatList' = lh.chatList
                /\ IF lh.raised
                   THEN /\ log' = Append(log, "Failed to parse response")
                        /\ UNCHANGED <<status, costLabel, total_tokens>>
                   ELSE /\ costLabel' = tokens
                        /\ total_tokens' = total_tokens + tokens
                        /\ log' = Append(log, "Received candidates")
                        /\ status' = "Done"

\* the UI thread delivers the oldest queued finished signal to _on_api_finished
ApiFinished ==
    /\ pending # <<>>
    /\ LET sig == Head(pending)
       IN  /\ IF Truthy(sig.err) THEN ApiFinishedFailure
              ELSE ApiFinishedResult(sig.resp[1])
           /\ workers' = [workers EXCEPT ![sig.w] = HandledThread]
    /\ pending' = Tail(pending)
    /\ UNCHANGED <<inputEdit, clipboard, current_attachments, nClicks>>
    /\ UNCHANGED <<reqVars, fletVars, helperVars, pickVars>>

----------------------------------------------------------------------------
(* The history store on its own: load_json, save_json, _append_history *)

\* the prompts and the response lists of the entries appended
HistPrompts == {<<>>, <<"a">>, <<"b">>}

HistResponses == {<<>>, << <<"a">> >>}

\* the defaults a caller hands to load_json
Defaults == {<<>>, <<HistoryEntry(<<"a">>, <<>>)>>}

\* _append_history(prompt, responses) is called
AppendHistory ==
    /\ nAppends < MaxAppends
    /\ \E prompt \in HistPrompts, responses \in HistResponses :
          LET r == append_history(histFile, prompt, responses)
          IN  /\ histFile' = r.file
              /\ history' = r.loaded.history
              /\ chatList' = r.loaded.chatList
              /\ fnCall' = [fn |-> "_append_history", prompt |-> prompt,
                            responses |-> responses, raised |-> r.loaded.raised]
    /\ nAppends' = nAppends + 1
    /\ UNCHANGED <<inputEdit, clipboard, current_attachments, sendBtnEnabled, status,
                   log, workers, pending, responses_list, response_preview,
                   costLabel, total_tokens, nClicks>>
    /\ UNCHANGED <<reqVars, fletVars, pickVars>>

\* load_json(HISTORY_FILE, default) is called
CallLoadJson ==
    /\ \E default \in Defaults :
          fnCall' = [fn |-> "load_json", file |-> histFile, default |-> default,
                     result |-> load_json(histFile, default)]
    /\ UNCHANGED <<nAppends, qtVars, reqVars, fletVars, pickVars>>

\* outside the program: the history file can no longer be read (its
\* permissions change, another process locks it) or its JSON text is damaged;
\* doc keeps the entries that were written to it
HistFileFault ==
    /\ histFile.kind = "ok"
    /\ \E k \in {"unreadable", "corrupt"} : histFile' = [histFile EXCEPT !.kind = k]
    /\ UNCHANGED <<inputEdit, clipboard, current_attachments, sendBtnEnabled, status,
                   log, workers, pending, history, chatList, responses_list,
                   response_preview, costLabel, total_tokens, nClicks>>
    /\ UNCHANGED <<reqVars, fletVars, helperVars, pickVars>>

----------------------------------------------------------------------------
(* The token estimate on its own: core.estimate_tokens *)

\* every text of letters, blanks and line ends up to MaxTextLen characters
EstimateTexts == UNION {[1..n -> {"a", " ", "\n"}] : n \in 0..MaxTextLen}

\* estimate_tokens(text) is called, with no tiktoken module installed
CallEstimateTokens ==
    /\ \E text \in EstimateTexts :
          fnCall' = [fn |-> "estimate_tokens", text |-> text,
                     result |-> estimate_tokens(text)]
    /\ UNCHANGED <<nAppends, qtVars, reqVars, fletVars, pickVars>>

----------------------------------------------------------------------------
(* The candidate picker: auto_pick_by_model of the second MainWindow *)

\* the candidate texts shown, as _on_api_finished stores them (trimmed)
PickTexts == {<<>>, <<"a">>, <<"b">>, <<"a", "b">>}

CandidateLists == UNION {[1..n -> PickTexts] : n \in 0..MaxCandidates}

\* what the create call of run_pick does
PickOutcomes ==
    {Returned(Raw("obj", Some(<<Choice("obj", Msg(Some(t)), None)>>))) :
        t \in {<<>>, <<"a">>, <<" ", "b">>, <<"a", "b">>, <<"c">>}}
    \cup {Returned(Raw("obj", Some(<<Choice("obj", Msg(None), None)>>))),
          Returned(Raw("dict", Some(<<Choice("dict", None, Some(<<"b">>))>>))),
          Returned(Raw("dict", None)),
          Returned(Raw("obj", None)),
          Raised("APIError")}

\* chosen in c
IsSubstring(x, c) ==
    \E i \in 0..(Len(c) - Len(x)) : SubSeq(c, i + 1, i + Len(x)) = x

RECURSIVE PickPromptTail(_, _)
\* the loop of lines 859-860: "(i) c\n\n" for each candidate
PickPromptTail(candidates, i) ==
    IF i > Len(candidates) THEN <<>>
    ELSE <<"(", i, ") ">> \o candidates[i] \o <<"\n", "\n">>
         \o PickPromptTail(candidates, i + 1)

\* pick_prompt
PickPrompt(candidates) == <<"Pick the best candidate">> \o PickPromptTail(candidates, 1)

\* the keyword arguments of the create call of run_pick
PickCallArgs(model, messages) ==
    [model |-> model, messages |-> messages, temperature |-> 0, n |-> 1]

\* run_pick, lines 878-893: the text of the first choice; raised stands for
\* the AttributeError of resp.get on an object
PickText(resp) ==
    LET fromAttr == IF resp.shape = "obj" THEN resp.choices ELSE None
        useAttr  == fromAttr # None /\ Truthy(fromAttr[1])
        choices  == IF useAttr THEN fromAttr[1]
                    ELSE IF resp.choices = None THEN <<>> ELSE resp.choices[1]
        c        == choices[1]
    IN  IF ~useAttr /\ resp.shape # "dict" THEN [raised |-> TRUE, text |-> <<>>]
        ELSE IF ~Truthy(choices) THEN [raised |-> FALSE, text |-> <<>>]
        ELSE IF c.shape = "dict"
        THEN [raised |-> FALSE,
              text |-> IF c.message # None /\ c.message[1].content # None
                          /\ Truthy(c.message[1].content[1])
                       THEN c.message[1].content[1]
                       ELSE IF c.text # None /\ Truthy(c.text[1]) THEN c.text[1]
                       ELSE <<>>]
        ELSE [raised |-> FALSE,
              text |-> IF c.message # None
                       THEN IF c.message[1].content # None
                            THEN c.message[1].content[1] ELSE <<>>
                       ELSE IF c.text # None THEN c.text[1] ELSE <<>>]

\* the matching loop without its break: the last containing candidate wins
PickIndex_LastMatch(chosen, candidates) ==
    LET matches == {i \in 1..Len(candidates) :
                       Truthy(chosen) /\ IsSubstring(chosen, candidates[i])}
    IN  IF matches = {} THEN 0
        ELSE (CHOOSE i \in matches : \A j \in matches : j <= i) - 1

\* the matching loop never assigning idx: the fallback is always taken
PickIndex_AlwaysFallback(chosen, candidates) == 0

\* run_pick, lines 895-903: the index (from 0) of the first candidate that
\* contains chosen, 0 when chosen is empty or none contains it
PickIndex(chosen, candidates) ==
    LET matches == {i \in 1..Len(candidates) :
                       Truthy(chosen) /\ IsSubstring(chosen, candidates[i])}
    IN  IF matches = {} THEN 0
        ELSE (CHOOSE i \in matches : \A j \in matches : i <= j) - 1

\* a run_pick thread: what it closed over, whether it has run, the create
\* calls it made, and its place among the threads in the order they queued
\* their call to the UI thread (0 until it has run)
PickThread(candidates, messages, model) ==
    [candidates |-> candidates, messages |-> messages, model |-> model,
     ran |-> FALSE, clientOk |-> TRUE, first |-> Raised("APIError"),
     calls |-> <<>>, seq |-> 0]

\* the number of run_pick threads that have run
PicksRan == Cardinality({i \in DOMAIN pickThreads : pickThreads[i].ran})

\* the queued calls of _apply_auto_pick and _auto_pick_failed
ApplyCall(idx, chosen) == [method |-> "_apply_auto_pick", idx |-> idx, chosen |-> chosen]

FailedCall(err) == [method |-> "_auto_pick_failed", idx |-> 0, chosen |-> <<err>>]

\* the candidate list is filled: by _on_api_finished (lines 811-815) or by
\* on_history_selected (lines 936-940)
ShowCandidates ==
    /\ nShows < MaxShows
    /\ \E cs \in CandidateLists :
          /\ responses_list' = cs
          /\ response_preview' = IF Truthy(cs) THEN cs[1] ELSE response_preview
    /\ nShows' = nShows + 1
    /\ UNCHANGED <<inputEdit, clipboard, current_attachments, sendBtnEnabled, status,
                   log, workers, pending, histFile, history, chatList, costLabel,
                   total_tokens, nClicks>>
    /\ UNCHANGED <<pickThreads, pickQueue, nPicks>>
    /\ UNCHANGED <<reqVars, fletVars, helperVars>>

\* auto_pick_by_model testing the length of the list before the empty
\* candidates are dropped
auto_pick_by_model_NoFilter ==
    LET candidates == NonEmptyTexts(responses_list)
        messages   == <<Message("system", DEFAULT_SYSTEM_PROMPT),
                        Message("user", PickPrompt(candidates))>>
    IN  /\ nPicks < MaxPicks
        /\ nPicks' = nPicks + 1
        /\ IF Len(responses_list) < 2
           THEN /\ log' = Append(log, "Need at least 2 candidates to auto-pick")
                /\ UNCHANGED <<status, pickThreads>>
           ELSE /\ status' = "Auto-picking best candidate..."
                /\ pickThreads' =
                      Append(pickThreads, PickThread(candidates, messages, "gpt-4o-mini"))
                /\ UNCHANGED log
        /\ UNCHANGED <<inputEdit, clipboard, current_attachments, sendBtnEnabled,
                       workers, pending, histFile, history, chatList, responses_list,
                       response_preview, costLabel, total_tokens, nClicks>>
        /\ UNCHANGED <<pickQueue, nShows>>
        /\ UNCHANGED <<reqVars, fletVars, helperVars>>

\* auto_pick_by_model, lines 844-866 and 913
auto_pick_by_model ==
    LET candidates == NonEmptyTexts(responses_list)
        messages   == <<Message("system", DEFAULT_SYSTEM_PROMPT),
                        Message("user", PickPrompt(candidates))>>
    IN  /\ nPicks < MaxPicks
        /\ nPicks' = nPicks + 1
        /\ IF Len(candidates) < 2
           THEN /\ log' = Append(log, "Need at least 2 candidates to auto-pick")
                /\ UNCHANGED <<status, pickThreads>>
           ELSE /\ status' = "Auto-picking best candidate..."
                /\ pickThreads' =
                      Append(pickThreads, PickThread(candidates, messages, "gpt-4o-mini"))
                /\ UNCHANGED log
        /\ UNCHANGED <<inputEdit, clipboard, current_attachments, sendBtnEnabled,
                       workers, pending, histFile, history, chatList, responses_list,
                       response_preview, costLabel, total_tokens, nClicks>>
        /\ UNCHANGED <<pickQueue, nShows>>
        /\ UNCHANGED <<reqVars, fletVars, helperVars>>

\* run_pick of thread t, lines 868-911: what it calls and what it queues;
\* clientOk says whether OpenAI(...) was constructed
run_pick(t, clientOk, first) ==
    LET call == PickCallArgs(t.model, t.messages)
        pt   == PickText(first.resp)
        chosen == Strip(pt.text)
    IN  IF ~clientOk
        THEN [calls |-> <<>>, queued |-> FailedCall("ClientError")]
        ELSE IF first.kind # "ok"
        THEN [calls |-> <<call>>, queued |-> FailedCall(first.kind)]
        ELSE IF pt.raised
        THEN [calls |-> <<call>>, queued |-> FailedCall("AttributeError")]
        ELSE [calls |-> <<call>>,
              queued |-> ApplyCall(PickIndex(chosen, t.candidates), chosen)]

\* the thread of a run_pick runs to its end
RunPick ==
    /\ \E i \in DOMAIN pickThreads, clientOk \in BOOLEAN, first \in PickOutcomes :
          /\ ~pickThreads[i].ran
          /\ LET r == run_pick(pickThreads[i], clientOk, first)
             IN  /\ pickThreads' = [pickThreads EXCEPT ![i].ran = TRUE,
                                                        ![i].clientOk = clientOk,
                                                        ![i].first = first,
                                                        ![i].calls = r.calls,
                                                        ![i].seq = PicksRan + 1]
                 /\ pickQueue' = Append(pickQueue, r.queued)
    /\ UNCHANGED <<nPicks, nShows, qtVars, reqVars, fletVars, helperVars>>

\* the UI thread runs the oldest queued call: _apply_auto_pick (lines
\* 916-924) or _auto_pick_failed (lines 927-929)
PickDelivered ==
    /\ pickQueue # <<>>
    /\ LET q == Head(pickQueue)
       IN  IF q.method = "_auto_pick_failed"
           THEN /\ log' = Append(log, "Auto-pick failed")
                /\ status' = "Auto-pick failed"
                /\ UNCHANGED <<response_preview, clipboard>>
           ELSE IF q.idx + 1 \in DOMAIN responses_list
           THEN /\ response_preview' = responses_list[q.idx + 1]
                /\ clipboard' = responses_list[q.idx + 1]
                /\ log' = Append(log, "Auto-picked candidate")
                /\ status' = "Auto-picked"
           ELSE UNCHANGED <<response_preview, clipboard, log, status>>
    /\ pickQueue' = Tail(pickQueue)
    /\ UNCHANGED <<inputEdit, current_attachments, sendBtnEnabled, workers, pending,
                   histFile, history, chatList, responses_list, costLabel,
                   total_tokens, nClicks>>
    /\ UNCHANGED <<pickThreads, nPicks, nShows>>
    /\ UNCHANGED <<reqVars, fletVars, helperVars>>

\* the response lists of the history entries found at start-up
StoredResponses ==
    [1..2 -> {<<"a">>, <<"b">>}] \cup {<<>>, << <<"a", "b">>, <<"a">> >>}

\* the history documents found at start-up
StoredHistories == [1..2 -> {HistoryEntry(<<"a">>, rs) : rs \in StoredResponses}]

\* on_history_selected, lines 931-942: the user selects entry k of the
\* history list; the candidate list is replaced by the entry's responses
on_history_selected ==
    /\ \E k \in DOMAIN history :
          LET responses == history[k].responses
          IN  /\ inputEdit' = history[k].prompt
              /\ responses_list' = responses
              /\ response_preview' =
                     IF Truthy(responses) THEN responses[1] ELSE response_preview
    /\ UNCHANGED <<clipboard, current_attachments, sendBtnEnabled, status, log,
                   workers, pending, histFile, history, chatList, costLabel,
                   total_tokens, nClicks>>
    /\ UNCHANGED <<reqVars, fletVars, helperVars, pickVars>>

----------------------------------------------------------------------------
(* The API key of a request *)

\* os.environ.get("OPENAI_API_KEY"): None when the variable is not set
EnvKeys == {None, Some(<<>>), Some(<<"e">>), Some(<<"e", "e">>)}

\* self.api_key_edit.text()
KeyEdits == UNION {[1..n -> {"k", " "}] : n \in 0..MaxKeyLen}

\* x or y, for an optional text x and a text y
OrText(x, y) == IF x # None /\ Truthy(x[1]) THEN x[1] ELSE y

\* ApiWorker.run, lines 77-79 (core.py 122-124): the api_key keyword given
\* to OpenAI(...), None when the key is empty and the client's default is used
ClientKey(api_key) == IF Truthy(api_key) THEN Some(api_key) ELSE None

\* on_send_clicked of the first window, line 329
FirstWindowKey(env, edit) == ClientKey(OrText(env, Strip(edit)))

\* on_send_clicked of the second window, line 776, and auto_pick_by_model,
\* line 853
SecondWindowKey(env, edit) ==
    ClientKey(IF Truthy(Strip(edit)) THEN Strip(edit) ELSE OrText(env, <<>>))

\* a request is built: the key is taken from the field and the environment
CallResolveKey ==
    /\ \E window \in {"first", "second"}, env \in EnvKeys, edit \in KeyEdits :
          fnCall' = [fn |-> "api_key", window |-> window, env |-> env, edit |-> edit,
                     result |-> IF window = "first" THEN FirstWindowKey(env, edit)
                                ELSE SecondWindowKey(env, edit)]
    /\ UNCHANGED <<nAppends, qtVars, reqVars, fletVars, pickVars>>

----------------------------------------------------------------------------
(* The clipboard command: main of ghub_chatgpt_clip.py *)

TIMEOUT_SEC == 60

\* what the create call of main does: it returns a result whose first choice
\* has a content (None for a null content), or raises
CliOutcomes ==
    {[kind |-> "ok", content |-> c] : c \in {None, Some(<<>>), Some(<<" ", "a">>)}}
    \cup {[kind |-> k, content |-> None] :
             k \in {"RateLimitError", "APIConnectionError", "APIError", "Exception"}}

\* isinstance(e, RateLimitError)
IsRateLimitError(kind) == kind = "RateLimitError"

\* isinstance(e, (APIConnectionError, APIError)): RateLimitError and
\* APIConnectionError are subclasses of APIError
IsAPIError(kind) == kind \in {"RateLimitError", "APIConnectionError", "APIError"}

CliResult(exit, calls, notified, copied) ==
    [exit |-> exit, calls |-> calls, notified |-> notified, copied |-> copied]

\* main with the handler of (APIConnectionError, APIError) placed before the
\* one of RateLimitError
ghub_main_ApiErrorFirst(api_key, pasted, pasteOk, outcome) ==
    LET src  == Strip(OrText(pasted, <<>>))
        call == [model |-> "MODEL",
                 messages |-> <<Message("system", <<"SYSTEM_PROMPT">>),
                                Message("user", <<"PRE_PROMPT">> \o src)>>,
                 temperature |-> TEMP_TENTHS, timeout |-> TIMEOUT_SEC]
    IN  IF ~(api_key # None /\ Truthy(api_key[1]))
        THEN CliResult(1, <<>>, <<>>, None)
        ELSE IF ~pasteOk THEN CliResult(1, <<>>, <<>>, None)
        ELSE IF ~Truthy(src) THEN CliResult(2, <<>>, <<>>, None)
        ELSE IF outcome.kind = "ok"
        THEN IF outcome.content = None
             THEN CliResult(5, <<call>>, <<"ChatGPT: failure">>, None)
             ELSE CliResult(0, <<call>>, <<"ChatGPT: done">>,
                            Some(Strip(outcome.content[1])))
        ELSE IF IsAPIError(outcome.kind)
        THEN CliResult(4, <<call>>, <<"ChatGPT: network/API error">>, None)
        ELSE IF IsRateLimitError(outcome.kind)
        THEN CliResult(3, <<call>>, <<"ChatGPT: limit">>, None)
        ELSE CliResult(5, <<call>>, <<"ChatGPT: failure">>, None)

\* main, lines 89-154: api_key is the environment's OPENAI_API_KEY, pasted
\* what pyperclip.paste() returns (pasteOk: whether it returns at all), outcome
\* what the create call does.  The result is the exit status, the create calls
\* made, the titles notify was called with and the text put on the clipboard.
ghub_main(api_key, pasted, pasteOk, outcome) ==
    LET src  == Strip(OrText(pasted, <<>>))
        call == [model |-> "MODEL",
                 messages |-> <<Message("system", <<"SYSTEM_PROMPT">>),
                                Message("user", <<"PRE_PROMPT">> \o src)>>,
                 temperature |-> TEMP_TENTHS, timeout |-> TIMEOUT_SEC]
    IN  IF ~(api_key # None /\ Truthy(api_key[1]))
        THEN CliResult(1, <<>>, <<>>, None)
        ELSE IF ~pasteOk THEN CliResult(1, <<>>, <<>>, None)   \* uncaught
        ELSE IF ~Truthy(src) THEN CliResult(2, <<>>, <<>>, None)
        ELSE IF outcome.kind = "ok"
        THEN IF outcome.content = None           \* None.strip()
             THEN CliResult(5, <<call>>, <<"ChatGPT: failure">>, None)
             ELSE CliResult(0, <<call>>, <<"ChatGPT: done">>,
                            Some(Strip(outcome.content[1])))
        ELSE IF IsRateLimitError(outcome.kind)
        THEN CliResult(3, <<call>>, <<"ChatGPT: limit">>, None)
        ELSE IF IsAPIError(outcome.kind)
        THEN CliResult(4, <<call>>, <<"ChatGPT: network/API error">>, None)
        ELSE CliResult(5, <<call>>, <<"ChatGPT: failure">>, None)

\* the command is run
RunCli ==
    /\ \E api_key \in EnvKeys, pasted \in {None} \cup {Some(t) : t \in Texts},
          pasteOk \in BOOLEAN, outcome \in CliOutcomes :
          fnCall' = [fn |-> "ghub_main", api_key |-> api_key, pasted |-> pasted,
                     pasteOk |-> pasteOk, outcome |-> outcome,
                     result |-> ghub_main(api_key, pasted, pasteOk, outcome)]
    /\ UNCHANGED <<nAppends, qtVars, reqVars, fletVars, pickVars>>

----------------------------------------------------------------------------
(* The Flet frontend: flet_main of main.py *)

PresetTexts == {<<"a">>}

\* load_history: the stored list, its last HIST_CAP entries
load_history(st) ==
    IF st = None THEN <<>>
    ELSE SubSeq(st[1], IF Len(st[1]) > HIST_CAP THEN Len(st[1]) - HIST_CAP + 1 ELSE 1,
                Len(st[1]))

\* save_history: the last HIST_CAP entries are stored
save_history(hist) ==
    Some(SubSeq(hist, IF Len(hist) > HIST_CAP THEN Len(hist) - HIST_CAP + 1 ELSE 1,
                Len(hist)))

\* save_hist_pair: the storage after it (the time stamp "t" is left out)
save_hist_pair(st, req, resp) ==
    save_history(Append(load_history(st), [req |-> req, resp |-> resp]))

Row(text, role) == [text |-> text, role |-> role]

\* the user edits the input field: on_change runs toggle_send_button
FletType ==
    /\ \E t \in Texts :
          /\ input_tf' = t
          /\ send_btn_disabled' = ~Truthy(Strip(t))
    /\ UNCHANGED <<typing_visible, attached_preset, fstate, output_lv, tasks,
                   storage, nSends>>
    /\ UNCHANGED <<reqVars, qtVars, helperVars, pickVars>>

\* attach_preset, with the drop-down's value
AttachPreset ==
    /\ \E txt \in PresetTexts \cup {<<>>} :
          IF ~Truthy(txt) THEN UNCHANGED attached_preset
          ELSE attached_preset' = Some(txt)
    /\ UNCHANGED <<input_tf, send_btn_disabled, typing_visible, fstate, output_lv,
                   tasks, storage, nSends>>
    /\ UNCHANGED <<reqVars, qtVars, helperVars, pickVars>>

\* detach_preset
DetachPreset ==
    /\ attached_preset' = None
    /\ UNCHANGED <<input_tf, send_btn_disabled, typing_visible, fstate, output_lv,
                   tasks, storage, nSends>>
    /\ UNCHANGED <<reqVars, qtVars, helperVars, pickVars>>

\* do_send, when there is a text to send
do_send ==
    LET txt == Strip(input_tf)
    IN  /\ Truthy(txt)
        /\ nSends < MaxSends
        /\ output_lv' = Append(output_lv, Row(txt, "req"))
        /\ fstate' = [last_req_text |-> txt, last_resp_text |-> <<>>]
        /\ input_tf' = <<>>
        /\ send_btn_disabled' = TRUE
        /\ typing_visible' = TRUE
        /\ tasks' = Append(tasks, [prompt |-> txt, preset |-> attached_preset])
        /\ nSends' = nSends + 1
        /\ UNCHANGED <<attached_preset, storage>>

\* the user clicks Send: a disabled button runs no handler
FletClickSend ==
    /\ ~send_btn_disabled
    /\ do_send
    /\ UNCHANGED <<reqVars, qtVars, helperVars, pickVars>>

\* kb_handler: Ctrl+Enter with the input field focused
FletCtrlEnter ==
    /\ do_send
    /\ UNCHANGED <<reqVars, qtVars, helperVars, pickVars>>

\* what t.result() gives on_task_done: the task's result, or "ERROR: {ex}"
\* when the task raised
TaskResponse(task, raised, envOk, first, second) ==
    IF raised THEN <<"ERROR:", "TaskError">>
    ELSE BlockingCall(task.prompt, task.preset, "gpt-3.5-turbo", BACKEND_TIMEOUT,
                      envOk, first, second).result

\* every response a task can end with
TaskResponses(task) ==
    {TaskResponse(task, raised, envOk, first, second) :
        raised \in BOOLEAN, envOk \in BOOLEAN, first \in Outcomes, second \in Outcomes}

\* on_task_done(t), with the response of the task
on_task_done(resp) ==
    /\ typing_visible' = FALSE
    /\ send_btn_disabled' = FALSE
    /\ output_lv' = Append(output_lv, Row(resp, "resp"))
    /\ fstate' = [fstate EXCEPT !.last_resp_text = resp]
    /\ storage' = save_hist_pair(storage, fstate.last_req_text, resp)

\* a process_send task ends and the page runs on_task_done for it
TaskDone ==
    /\ \E i \in DOMAIN tasks :
          /\ \E resp \in TaskResponses(tasks[i]) : on_task_done(resp)
          /\ tasks' = [k \in 1..(Len(tasks) - 1) |->
                          IF k < i THEN tasks[k] ELSE tasks[k + 1]]
    /\ UNCHANGED <<input_tf, attached_preset, nSends>>
    /\ UNCHANGED <<reqVars, qtVars, helperVars, pickVars>>

\* clear_history
ClearHistory ==
    /\ storage' = None
    /\ output_lv' = <<>>
    /\ UNCHANGED <<input_tf, send_btn_disabled, typing_visible, attached_preset,
                   fstate, tasks, nSends>>
    /\ UNCHANGED <<reqVars, qtVars, helperVars, pickVars>>

----------------------------------------------------------------------------
(* The specifications *)

InitReq == reqRun = NoRun

\* MainWindow.__init__, all but the history file it finds
InitWindow ==
    /\ inputEdit = <<>>
    /\ clipboard = <<>>
    /\ current_attachments = <<>>
    /\ sendBtnEnabled = TRUE
    /\ status = ""
    /\ log = <<>>
    /\ workers = <<>>
    /\ pending = <<>>
    /\ history = <<>>
    /\ chatList = <<>>
    /\ responses_list = <<>>
    /\ response_preview = <<>>
    /\ costLabel = 0
    /\ total_tokens = 0
    /\ nClicks = 0

InitQt == InitWindow /\ histFile = HistFile("missing", <<>>)

\* the history files a first append can find: none, one holding an empty
\* list, one of zero bytes
InitHistFiles ==
    {HistFile("missing", <<>>), HistFile("ok", <<>>), HistFile("corrupt", <<>>)}

InitFlet ==
    /\ input_tf = <<>>
    /\ send_btn_disabled = TRUE
    /\ typing_visible = FALSE
    /\ attached_preset = None
    /\ fstate = [last_req_text |-> <<>>, last_resp_text |-> <<>>]
    /\ output_lv = <<>>
    /\ tasks = <<>>
    /\ storage = None
    /\ nSends = 0

NoCall == [fn |-> "none"]

InitHelper == fnCall = NoCall /\ nAppends = 0

InitPick ==
    /\ pickThreads = <<>>
    /\ pickQueue = <<>>
    /\ nPicks = 0
    /\ nShows = 0

Init == InitReq /\ InitQt /\ InitFlet /\ InitHelper /\ InitPick

NextQt ==
    \/ TypeText
    \/ SetClipboard
    \/ OnAttach
    \/ ClickSend
    \/ WorkerRun
    \/ ApiFinished

NextReq ==
    \/ RunCoreWorker
    \/ RunQtWorker
    \/ RunBackend

NextFlet ==
    \/ FletType
    \/ AttachPreset
    \/ DetachPreset
    \/ FletClickSend
    \/ FletCtrlEnter
    \/ TaskDone
    \/ ClearHistory

\* the Qt chat session
Spec == Init /\ [][NextQt]_vars

\* the UI thread's event loop takes the oldest queued finished signal (the
\* step of ApiFinished, as far as the queue goes)
DeliverFinished == pending # <<>> /\ pending' = Tail(pending)

\* the Qt chat session, with every started worker thread scheduled and the
\* UI thread's event loop delivering every queued signal
FairSpec == Spec /\ WF_vars(WorkerRun) /\ WF_pending(DeliverFinished)

\* single requests of the three requesters
RequesterSpec == Init /\ [][NextReq]_vars

\* the Flet frontend
FletSpec == Init /\ [][NextFlet]_vars

NextPick ==
    \/ ShowCandidates
    \/ auto_pick_by_model
    \/ RunPick
    \/ PickDelivered

\* the candidate picker
PickSpec == Init /\ [][NextPick]_vars

\* a window started on a history document that holds entries
InitStored ==
    /\ InitReq /\ InitFlet /\ InitHelper /\ InitPick
    /\ histFile \in {save_json(h) : h \in StoredHistories}
    /\ history = LoadHistory(histFile).history
    /\ chatList = LoadHistory(histFile).chatList
    /\ inputEdit = <<>>
    /\ clipboard = <<>>
    /\ current_attachments = <<>>
    /\ sendBtnEnabled = TRUE
    /\ status = ""
    /\ log = <<>>
    /\ workers = <<>>
    /\ pending = <<>>
    /\ responses_list = <<>>
    /\ response_preview = <<>>
    /\ costLabel = 0
    /\ total_tokens = 0
    /\ nClicks = 0

NextStored ==
    \/ on_history_selected
    \/ auto_pick_by_model
    \/ RunPick
    \/ PickDelivered

\* the candidate picker over the lists of a stored history
StoredPickSpec == InitStored /\ [][NextStored]_vars

\* the key resolution of the two windows
KeySpec == Init /\ [][CallResolveKey]_vars

\* runs of the clipboard command
CliSpec == Init /\ [][RunCli]_vars

\* calls of estimate_tokens
EstimateSpec == Init /\ [][CallEstimateTokens]_vars

NextHistory ==
    \/ AppendHistory
    \/ CallLoadJson
    \/ HistFileFault

\* the history store on its own, with a file that can go bad
InitHistory ==
    /\ InitReq /\ InitWindow /\ InitFlet /\ InitHelper /\ InitPick
    /\ histFile \in InitHistFiles

HistorySpec == InitHistory /\ [][NextHistory]_vars

----------------------------------------------------------------------------
(* The claims *)

\* the step in which _on_api_finished handles the oldest queued signal
FinishedStep == pending # <<>> /\ pending' = Tail(pending)

\* the user text of the request whose signal is the oldest queued one
SentPrompt == workers[Head(pending).w].worker.messages[2].content

\* the oldest queued signal carries a result that parses
ResultParses ==
    /\ Head(pending).err = None
    /\ ~QtNormalize(Head(pending).resp[1]).raised

\* C1: every request run by ApiWorker.run (core.py and beepconf_qt_chat.py)
\* reports exactly one outcome on finished, and that outcome is either a
\* response with no error or an error with no response; a response is
\* reported only when a create call returned it.
C1_ExactlyOneOutcome ==
    reqRun.variant \in {"core", "qt"} =>
        /\ Len(reqRun.emits) = 1
        /\ (reqRun.emits[1].resp = None) # (reqRun.emits[1].err = None)
        /\ reqRun.emits[1].err = None =>
              /\ reqRun.clientOk
              /\ \E o \in {reqRun.first, reqRun.second} :
                    o.kind = "ok" /\ reqRun.emits[1].resp = Some(o.resp)

\* a core worker whose first call rejected request_timeout and whose retry
\* returned a result
C1_Witness ==
    /\ reqRun.variant = "core"
    /\ Len(reqRun.calls) = 2
    /\ Len(reqRun.emits) = 1
    /\ reqRun.emits[1].err = None

\* C2: while a worker started by on_send_clicked has not been handled by
\* _on_api_finished the send button is disabled, and at most one request is
\* in flight.
C2_OneRequestInFlight ==
    /\ Cardinality(InFlight) <= 1
    /\ InFlight # {} => ~sendBtnEnabled

\* a second request in flight after the first one was handled
C2_Witness ==
    /\ Len(workers) = 2
    /\ workers[1].handled
    /\ InFlight = {2}
    /\ ~sendBtnEnabled

\* C3: a run of on_send_clicked whose resolved prompt (the stripped typed
\* text, else the clipboard) is empty creates no worker, leaves the send
\* button enabled and the history and token total unchanged; with a resolved
\* prompt that is not empty it starts a worker and disables the send button.
C3_EmptyPromptRejected ==
    [][nClicks' = nClicks + 1 =>
          LET typed    == Strip(inputEdit)
              resolved == IF typed # <<>> THEN typed ELSE clipboard
          IN  IF resolved = <<>>
              THEN /\ UNCHANGED <<workers, pending, sendBtnEnabled, histFile,
                                  history, total_tokens>>
                   /\ sendBtnEnabled
              ELSE /\ ~sendBtnEnabled'
                   /\ Len(workers') = Len(workers) + 1
                   /\ status' = "Sending..."]_vars

\* a blank input was rejected with an empty clipboard, and a later send went out
C3_Witness ==
    /\ Len(log) > 0
    /\ log[1] = "No input to send"
    /\ Len(workers) = 1
    /\ ~sendBtnEnabled

\* C4: when a result that parses is handled (no file attached), the history
\* file gains exactly one entry, whose prompt is the prompt text sent and
\* whose responses are the normalized candidates.
C4_HistoryHoldsSentPrompt ==
    [][(FinishedStep /\ ResultParses /\ current_attachments = <<>>) =>
          /\ histFile'.kind = "ok"
          /\ histFile'.doc =
                Append(load_json(histFile, <<>>),
                       HistoryEntry(SentPrompt,
                                    QtNormalize(Head(pending).resp[1]).candidates))]_vars

\* C5: when the requester reports a failure, the token total and the history
\* are left as they were, the status bar shows "Error" and one line is logged.
C5_FailureLeavesLedgerAndHistory ==
    [][(FinishedStep /\ Head(pending).err # None) =>
          /\ UNCHANGED <<total_tokens, costLabel, histFile, history>>
          /\ status' = "Error"
          /\ log' = Append(log, "API error")]_vars

\* a failure handled after an earlier send was counted and stored
C5_Witness ==
    /\ status = "Error"
    /\ log # <<>>
    /\ log[Len(log)] = "API error"
    /\ total_tokens > 0
    /\ Len(load_json(histFile, <<>>)) = 1

\* C6: the Flet history holds no pair whose response is an error text.
C6_NoHistoryForFailedSend ==
    \A i \in DOMAIN load_history(storage) :
        LET resp == load_history(storage)[i].resp
        IN  resp = <<>> \/ Head(resp) # "ERROR:"

\* C7: whenever the send button is disabled, it is enabled again later with
\* no request left in flight.
C7_SendReturnsToIdle ==
    (~sendBtnEnabled) ~> (sendBtnEnabled /\ InFlight = {})

\* both sends are over, one by a reported failure and one by an exception
\* while parsing, and the button is enabled
C7_Witness ==
    /\ sendBtnEnabled
    /\ Len(workers) = 2
    /\ InFlight = {}
    /\ \E i \in DOMAIN log : log[i] = "API error"
    /\ \E i \in DOMAIN log : log[i] = "Failed to parse response"

\* C8: when a result that parses is handled (no file attached), the token
\* total grows by estimate_tokens of the prompt text sent.
C8_TotalGrowsByPromptEstimate ==
    [][(FinishedStep /\ ResultParses /\ current_attachments = <<>>) =>
          total_tokens' = total_tokens + estimate_tokens(SentPrompt)]_vars

\* C9: a failure that the Qt session's worker reports for a rejected
\* request_timeout comes after a second call made without request_timeout.
C9_QtWorkerRetriesWithoutTimeout ==
    \A k \in DOMAIN pending :
        (pending[k].err # None /\ MentionsRequestTimeout(pending[k].err[1].e)) =>
            /\ Len(workers[pending[k].w].calls) = 2
            /\ workers[pending[k].w].calls[2].request_timeout = None

\* the outcome of the last create call of the request
LastOutcome ==
    IF MentionsRequestTimeout(reqRun.first.kind) THEN reqRun.second ELSE reqRun.first

\* the second call is the first one with only request_timeout left out, and
\* the last call's outcome is the one reported
C10_RetryAndReport ==
    /\ Len(reqRun.calls) >= 1 => reqRun.calls[1].request_timeout # None
    /\ Len(reqRun.calls) = 2 =>
          reqRun.calls[2] = [reqRun.calls[1] EXCEPT !.request_timeout = None]
    /\ (Len(reqRun.calls) >= 1 /\ LastOutcome.kind # "ok") =>
          IF reqRun.variant = "core"
          THEN reqRun.emits = <<EmitErr(LastOutcome.kind)>>
          ELSE Take(reqRun.result, 2) = <<"ERROR:", LastOutcome.kind>>
    /\ (Len(reqRun.calls) >= 1 /\ LastOutcome.kind = "ok") =>
          IF reqRun.variant = "core"
          THEN reqRun.emits = <<EmitOk(LastOutcome.resp)>>
          ELSE LastOutcome.resp.choices # None =>
                  (reqRun.result = <<>> \/ Head(reqRun.result) # "ERROR:")

\* C10 as claimed: core.ApiWorker.run and send_to_backend make one call, or
\* two exactly when the first raised a TypeError mentioning request_timeout.
C10_OneOrTwoCalls ==
    reqRun.variant \in {"core", "flet"} =>
        /\ Len(reqRun.calls) \in {1, 2}
        /\ Len(reqRun.calls) = 2 <=> MentionsRequestTimeout(reqRun.first.kind)
        /\ C10_RetryAndReport

\* C10 as amended: no call when the client could not be constructed (a
\* failure is reported); otherwise one call, or two exactly when the first
\* raised a TypeError mentioning request_timeout.
C10_CallsPerRequest ==
    reqRun.variant \in {"core", "flet"} =>
        /\ ~reqRun.clientOk =>
              /\ reqRun.calls = <<>>
              /\ IF reqRun.variant = "core"
                 THEN Len(reqRun.emits) = 1 /\ reqRun.emits[1].err # None
                 ELSE Head(reqRun.result) = "ERROR:"
        /\ reqRun.clientOk =>
              /\ Len(reqRun.calls) \in {1, 2}
              /\ Len(reqRun.calls) = 2 <=> MentionsRequestTimeout(reqRun.first.kind)
        /\ C10_RetryAndReport

\* a send_to_backend request whose retry without request_timeout failed
C10_Witness ==
    /\ reqRun.variant = "flet"
    /\ Len(reqRun.calls) = 2
    /\ reqRun.second.kind = "APIError"
    /\ Head(reqRun.result) = "ERROR:"

\* the text C11 asks for one choice: message.content if present, else text,
\* else the empty text, trimmed
C11_ChoiceText(c) ==
    Strip(IF c.message # None /\ c.message[1].content # None
          THEN c.message[1].content[1]
          ELSE IF c.text # None THEN c.text[1] ELSE <<>>)

\* C11: for every raw result with choices that a worker reported, in either
\* shape, the normalization of _on_api_finished does not raise and gives one
\* text per choice, in the endpoint's order: message.content if present, else
\* text, else the empty text, trimmed.
C11_OneTextPerChoice ==
    \A k \in DOMAIN pending :
        (pending[k].err = None /\ pending[k].resp[1].choices # None) =>
            LET choices == pending[k].resp[1].choices[1]
                p       == QtNormalize(pending[k].resp[1])
            IN  /\ ~p.raised
                /\ p.candidates =
                      [i \in 1..Len(choices) |-> C11_ChoiceText(choices[i])]

\* C12: when a result without choices is handled, the session ends as a
\* success with no candidate: the candidate list is empty, the history file
\* gains one entry with an empty responses list, and no parse failure is
\* logged.
C12_NoChoicesIsSuccess ==
    [][(FinishedStep /\ Head(pending).err = None
            /\ Head(pending).resp[1].choices = None) =>
          /\ responses_list' = <<>>
          /\ Len(load_json(histFile', <<>>)) = Len(load_json(histFile, <<>>)) + 1
          /\ load_json(histFile', <<>>)[Len(load_json(histFile', <<>>))].responses = <<>>
          /\ log'[Len(log')] # "Failed to parse response"]_vars

\* C13: a run of on_send_clicked that issues a request leaves the attachment
\* list empty.
C13_AttachmentsConsumed ==
    [][Len(workers') = Len(workers) + 1 => current_attachments' = <<>>]_vars

\* the entries on disk: what was last written to the file and is still there
OnDisk == IF histFile.kind = "missing" THEN <<>> ELSE histFile.doc

\* a call of _append_history
AppendStep == nAppends' = nAppends + 1

\* C14: an append never removes, reorders or changes an entry that is on
\* disk: what is stored before the append is a prefix of what is stored after
\* it, also when the load step of the append falls back to the default.
C14_AppendKeepsEntries ==
    [][AppendStep =>
          /\ Len(OnDisk') >= Len(OnDisk)
          /\ SubSeq(OnDisk', 1, Len(OnDisk)) = OnDisk]_vars

\* C15: with a history file that is missing, empty or loads without error, an
\* append of entry e leaves a file that loads as the entries loaded before in
\* their order followed by e (so N appends from an empty or missing file load
\* as those N entries in append order).
C15_AppendThenLoad ==
    [][(AppendStep /\ (histFile.kind \in {"missing", "ok"} \/ histFile.doc = <<>>)) =>
          /\ histFile'.kind = "ok"
          /\ load_json(histFile', <<>>) =
                Append(load_json(histFile, <<>>),
                       HistoryEntry(fnCall'.prompt, fnCall'.responses))
          /\ load_json(histFile', <<>>)[Len(load_json(histFile', <<>>))] =
                HistoryEntry(fnCall'.prompt, fnCall'.responses)]_vars

\* two different entries were appended to a missing file and load in order
C15_Witness ==
    /\ nAppends = 2
    /\ histFile.kind = "ok"
    /\ Len(histFile.doc) = 2
    /\ histFile.doc[1].prompt = <<"a">>
    /\ histFile.doc[2].prompt = <<"b">>

\* C16: a call of load_json returns the parsed document of a file that is
\* readable and well formed, and the caller's default for a file that is
\* missing, unreadable or corrupt; it leaves the file as it was.
C16_LoadJsonDefaults ==
    [][(fnCall' # fnCall /\ fnCall'.fn = "load_json") =>
          /\ fnCall'.file = histFile
          /\ fnCall'.result = IF histFile.kind = "ok" THEN histFile.doc
                              ELSE fnCall'.default
          /\ histFile' = histFile]_vars

\* load_json gave a caller's default, not the empty list, for a corrupt file
\* that still holds an entry
C16_Witness ==
    /\ fnCall.fn = "load_json"
    /\ fnCall.file.kind = "corrupt"
    /\ fnCall.file.doc # <<>>
    /\ fnCall.default # <<>>
    /\ fnCall.result = fnCall.default

\* ceil(words / 0.75)
C17_Ceil(words) == (4 * words + 2) \div 3

\* C17: with no exact tokenizer, estimate_tokens gives 0 for the empty text
\* and, for any other text, ceil(wordCount / 0.75), and at least 1.
C17_EstimateIsCeiling ==
    fnCall.fn = "estimate_tokens" =>
        fnCall.result =
            IF fnCall.text = <<>> THEN 0
            ELSE IF C17_Ceil(WordCount(fnCall.text)) < 1 THEN 1
            ELSE C17_Ceil(WordCount(fnCall.text))

\* a run of auto_pick_by_model
PickStep == nPicks' = nPicks + 1

\* the run_pick thread i runs to its end in this step
PickRanStep(i) == ~pickThreads[i].ran /\ pickThreads'[i].ran

\* the call run_pick queued in this step
PickQueued == pickQueue'[Len(pickQueue')]

\* a run of auto_pick_by_model with fewer than two non-empty candidates shown
\* logs that it needs two and starts no thread (so no call is made); with two
\* or more it starts one thread
C18_FailsFast ==
    PickStep =>
        IF Cardinality({i \in DOMAIN responses_list : responses_list[i] # <<>>}) < 2
        THEN /\ log' = Append(log, "Need at least 2 candidates to auto-pick")
             /\ UNCHANGED <<pickThreads, pickQueue>>
        ELSE /\ Len(pickThreads') = Len(pickThreads) + 1
             /\ UNCHANGED <<log, pickQueue>>

\* C18 as claimed: auto_pick_by_model with fewer than two non-empty
\* candidates ends with "not enough candidates", no call and no thread; with
\* two or more its thread issues exactly one create call, at temperature 0.
C18_OnePickCall ==
    [][/\ C18_FailsFast
       /\ \A i \in DOMAIN pickThreads :
             PickRanStep(i) =>
                 /\ Len(pickThreads'[i].calls) = 1
                 /\ pickThreads'[i].calls[1].temperature = 0]_vars

\* C18 as amended: the same, but the thread issues no call and reports a
\* failure when the client cannot be constructed.
C18_OnePickCallUnlessNoClient ==
    [][/\ C18_FailsFast
       /\ \A i \in DOMAIN pickThreads :
             PickRanStep(i) =>
                 IF pickThreads'[i].clientOk
                 THEN /\ Len(pickThreads'[i].calls) = 1
                      /\ pickThreads'[i].calls[1].temperature = 0
                 ELSE /\ pickThreads'[i].calls = <<>>
                      /\ PickQueued.method = "_auto_pick_failed"]_vars

\* one pick was turned down for lack of candidates and another made its call
C18_Witness ==
    /\ nPicks = 2
    /\ \E k \in DOMAIN log : log[k] = "Need at least 2 candidates to auto-pick"
    /\ Len(pickThreads) = 1
    /\ pickThreads[1].ran
    /\ Len(pickThreads[1].calls) = 1

\* the text the endpoint returned: the first choice's message.content, else
\* its text, else the empty text
C19_ReturnedText(resp) ==
    IF resp.choices = None \/ resp.choices[1] = <<>> THEN <<>>
    ELSE LET c == resp.choices[1][1]
         IN  IF c.message # None /\ c.message[1].content # None
                /\ c.message[1].content[1] # <<>>
             THEN c.message[1].content[1]
             ELSE IF c.text # None THEN c.text[1] ELSE <<>>

\* C19: a pick that resolves gives the trimmed returned text and the smallest
\* index, in the order of the candidates, of a candidate that contains that
\* text when it is not empty; index 0 when it is empty or no candidate
\* contains it.
C19_FirstContainingCandidate ==
    [][\A i \in DOMAIN pickThreads :
          (PickRanStep(i) /\ PickQueued.method = "_apply_auto_pick") =>
              LET cands   == pickThreads[i].candidates
                  chosen  == Strip(C19_ReturnedText(pickThreads'[i].first.resp))
                  matches == {k \in 1..Len(cands) :
                                 chosen # <<>> /\ IsSubstring(chosen, cands[k])}
              IN  /\ PickQueued.chosen = chosen
                  /\ matches = {} => PickQueued.idx = 0
                  /\ matches # {} =>
                        /\ PickQueued.idx + 1 \in matches
                        /\ \A k \in matches : PickQueued.idx + 1 <= k]_vars

\* the returned text " b" was trimmed and found in the second candidate, the
\* first of the two that contain it
C19_Witness ==
    /\ Len(pickThreads) >= 1
    /\ pickThreads[1].ran
    /\ pickThreads[1].candidates = << <<"a">>, <<"a", "b">>, <<"b">> >>
    /\ pickQueue # <<>>
    /\ pickQueue[1] = ApplyCall(1, <<"b">>)

\* C20 as claimed: when the returned text equals candidate k, the pick
\* resolves to index k.
C20_ExactMatchPicksItself ==
    [][\A i \in DOMAIN pickThreads :
          (PickRanStep(i) /\ pickThreads'[i].clientOk
               /\ pickThreads'[i].first.kind = "ok") =>
              \A k \in DOMAIN pickThreads[i].candidates :
                  C19_ReturnedText(pickThreads'[i].first.resp)
                          = pickThreads[i].candidates[k] =>
                      /\ PickQueued.method = "_apply_auto_pick"
                      /\ PickQueued.idx = k - 1]_vars

\* C20 as amended: when the returned text equals candidate k, the pick
\* resolves to the first candidate that contains candidate k: an index of at
\* most k, and k itself exactly when no earlier candidate contains it.
C20_ExactMatchPicksFirstContaining ==
    [][\A i \in DOMAIN pickThreads :
          (PickRanStep(i) /\ pickThreads'[i].clientOk
               /\ pickThreads'[i].first.kind = "ok") =>
              \A k \in DOMAIN pickThreads[i].candidates :
                  LET cands == pickThreads[i].candidates
                  IN  C19_ReturnedText(pickThreads'[i].first.resp) = cands[k] =>
                          /\ PickQueued.method = "_apply_auto_pick"
                          /\ PickQueued.idx + 1 <= k
                          /\ IsSubstring(cands[k], cands[PickQueued.idx + 1])
                          /\ \A j \in 1..PickQueued.idx :
                                ~IsSubstring(cands[k], cands[j])
                          /\ (PickQueued.idx = k - 1) <=>
                                (\A j \in 1..(k - 1) :
                                    ~IsSubstring(cands[k], cands[j]))]_vars

\* the returned text was the third of three candidates, which no earlier one
\* contains, and the pick resolved to index 2
C20_Witness ==
    /\ Len(pickThreads) >= 1
    /\ pickThreads[1].ran
    /\ pickThreads[1].candidates = << <<"a">>, <<"a">>, <<"b">> >>
    /\ C19_ReturnedText(pickThreads[1].first.resp) = <<"b">>
    /\ pickQueue # <<>>
    /\ pickQueue[1] = ApplyCall(2, <<"b">>)

\* the step in which the UI thread runs a queued _apply_auto_pick
ApplyStep ==
    /\ pickQueue # <<>>
    /\ pickQueue' = Tail(pickQueue)
    /\ Head(pickQueue).method = "_apply_auto_pick"

\* C21: when a pick is applied and some candidate shown contains the returned
\* text, the candidate that is put in the preview and copied to the clipboard
\* contains it too, also when the list holds empty candidates.
C21_SelectsMatchedCandidate ==
    [][ApplyStep =>
          LET chosen == Head(pickQueue).chosen
          IN  (chosen # <<>> /\ \E k \in DOMAIN responses_list :
                                   IsSubstring(chosen, responses_list[k])) =>
                  /\ IsSubstring(chosen, clipboard')
                  /\ response_preview' = clipboard']_vars

\* the picks started whose _apply_auto_pick or _auto_pick_failed has not run
\* yet: the threads still running and the calls still queued
OutstandingPicks ==
    Cardinality({i \in DOMAIN pickThreads : ~pickThreads[i].ran}) + Len(pickQueue)

\* C22: at most one auto-pick is outstanding at any time.
C22_OnePickOutstanding == OutstandingPicks <= 1

\* C23: in the Flet frontend at most one backend task is in flight.
C23_OneTaskInFlight == Len(tasks) <= 1

\* the task whose on_task_done runs in this step is the i-th outstanding one
TaskDoneStep(i) ==
    /\ i \in DOMAIN tasks
    /\ Len(tasks') = Len(tasks) - 1
    /\ tasks' = [k \in 1..(Len(tasks) - 1) |->
                    IF k < i THEN tasks[k] ELSE tasks[k + 1]]

\* C27: the pair on_task_done saves holds the request text of the task that
\* ended, the text its response was produced for.
C27_PairHoldsOwnRequest ==
    [][(\E i \in DOMAIN tasks : TaskDoneStep(i)) =>
          \E i \in DOMAIN tasks :
              /\ TaskDoneStep(i)
              /\ load_history(storage') # <<>>
              /\ load_history(storage')[Len(load_history(storage'))].req
                    = tasks[i].prompt]_vars

CliCalled ==
    /\ fnCall.api_key # None /\ fnCall.api_key[1] # <<>>
    /\ fnCall.pasteOk
    /\ fnCall.pasted # None /\ Strip(fnCall.pasted[1]) # <<>>

\* C25: a run of the clipboard command makes at most one create call; with
\* no API key it exits 1 and with an empty clipboard it exits 2, both without
\* a call or a notification; a rate-limit error exits 3 with the limit
\* notification and exit 3 means nothing else; API and connection errors exit
\* 4 and other errors exit 5, each after exactly one call.
C25_CliOutcomes ==
    fnCall.fn = "ghub_main" =>
        LET r == fnCall.result
        IN  /\ Len(r.calls) <= 1
            /\ (fnCall.api_key = None \/ fnCall.api_key[1] = <<>>) =>
                  r.exit = 1 /\ r.calls = <<>> /\ r.notified = <<>>
            /\ (fnCall.api_key # None /\ fnCall.api_key[1] # <<>> /\ fnCall.pasteOk
                   /\ (fnCall.pasted = None \/ Strip(fnCall.pasted[1]) = <<>>)) =>
                  r.exit = 2 /\ r.calls = <<>> /\ r.notified = <<>>
            /\ (CliCalled /\ fnCall.outcome.kind = "RateLimitError") =>
                  r.exit = 3 /\ r.notified = <<"ChatGPT: limit">> /\ Len(r.calls) = 1
            /\ r.exit = 3 => CliCalled /\ fnCall.outcome.kind = "RateLimitError"
            /\ r.exit = 4 =>
                  /\ CliCalled /\ Len(r.calls) = 1
                  /\ fnCall.outcome.kind \in {"APIConnectionError", "APIError"}
            /\ r.exit = 5 =>
                  /\ CliCalled /\ Len(r.calls) = 1
                  /\ fnCall.outcome.kind \notin
                         {"RateLimitError", "APIConnectionError", "APIError"}
            /\ r.exit = 0 => CliCalled /\ fnCall.outcome.kind = "ok"

\* a run that was throttled: one call, exit 3, the limit notification
C25_Witness ==
    /\ fnCall.fn = "ghub_main"
    /\ fnCall.outcome.kind = "RateLimitError"
    /\ fnCall.result.exit = 3
    /\ Len(fnCall.result.calls) = 1
    /\ fnCall.result.notified = <<"ChatGPT: limit">>

\* C26: the history document the Qt session has written is always one that
\* _load_history loads and renders without raising.
C26_OwnHistoryLoads == ~LoadHistory(histFile).raised

\* C29: whenever _on_api_finished handles a signal, the history document
\* gains an entry exactly when the token total grows.
C29_EntryIffTokens ==
    [][FinishedStep =>
         ((Len(load_json(histFile', <<>>)) > Len(load_json(histFile, <<>>)))
          <=> (total_tokens' > total_tokens))]_vars

\* C30: whenever the send button is enabled, the status is not
\* "Sending...".
C30_IdleStatusIsFinal == sendBtnEnabled => status # "Sending..."

\* the thread whose call is the oldest queued one
HeadPick ==
    CHOOSE i \in DOMAIN pickThreads :
        pickThreads[i].ran /\ pickThreads[i].seq = PicksRan - Len(pickQueue) + 1

\* C28: the candidate a queued _apply_auto_pick selects and copies to the
\* clipboard is one of the candidates its pick was computed from, whatever
\* happened to the candidate list in between.
C28_SelectsFromOwnList ==
    [][(ApplyStep /\ Head(pickQueue).idx + 1 \in DOMAIN responses_list) =>
          \E k \in DOMAIN pickThreads[HeadPick].candidates :
              clipboard' = pickThreads[HeadPick].candidates[k]]_vars

====
